---- MODULE Spec2Model ----
(***************************************************************************)
(* video_mixer.py: the VideoProcessor worker thread (split_video, run) and *)
(* the part of MainWindow that starts it.                                  *)
(*                                                                         *)
(* Times are counted in half seconds: 1 is 0.5 s, 6 is 3.0 s, 20 is 10.0 s,*)
(* 60 is 30 s and 120 is 60 s.  With that unit every comparison against    *)
(* 0.5, 3.0, 10.0, 30 and 60 of the source can land on either side of its  *)
(* threshold and exactly on it.                                            *)
(***************************************************************************)
EXTENDS Integers, Sequences, FiniteSets

\* ------------------------------------------------------------ constants
Cadence == 6
MinClip == 1
MaxClip == 20
TargetMin == 60
TargetMax == 120
SplitScale == 30
DoneProgress == 100
FailProgress == 0

\* ------------------------------------------------------------ bounds
MaxFiles == 2
MaxFaults == 1
MaxDuration == 23

\* The files the file dialog offers (the pipeline specification).  Each file
\* has a duration, may have an audio track, and has the beat times librosa
\* finds in that track: a.mp4 gives four clips of 9.5 s; b.mp4 one clip of 8 s
\* and a pair of exactly 0.5 s; c.mp4, without audio, one pair of 0.5 s.
Paths == {"a.mp4", "b.mp4", "c.mp4"}
Library ==
    [p \in Paths |->
        CASE p = "a.mp4" -> [duration |-> 76, audio |-> TRUE,  beats |-> <<0, 19, 38, 57>>]
          [] p = "b.mp4" -> [duration |-> 17, audio |-> TRUE,  beats |-> <<0, 16>>]
          [] OTHER       -> [duration |-> 1,  audio |-> FALSE, beats |-> <<>>]]
\* The values random.uniform(30, 60) is drawn from.
Targets == {TargetMin, 73, TargetMax}
\* The beat times an analyzer result is built from (the split_video
\* specification); some lie at and beyond every duration up to MaxDuration.
BeatGrid == {0, 1, 2, 3, 13, 22, 23, 25}

VARIABLES
    entry,            \* "main": run through MainWindow; "direct": VideoProcessor used by itself
    media,            \* path -> [duration, audio, beats]: the files on disk
    faults,           \* failures of the media/analysis libraries so far
    win_files,        \* MainWindow.video_files
    select_btn,       \* select_btn.isEnabled()
    process_btn,      \* process_btn.isEnabled()
    bar_visible,      \* progress_bar.isVisible()
    bar_value,        \* progress_bar.value()
    delivered,        \* how many emissions of progress have reached update_progress
    handled,          \* how many emissions of finished have reached processing_finished
    pc,               \* where VideoProcessor.run is
    video_files,      \* VideoProcessor.video_files
    processed,        \* per file of the loop at line 135: what split_video gave, and
                      \* the boundary pairs on which subclip or get_frame failed
    split_points,     \* split_video's split_points for the latest file
    all_clips,        \* run's all_clips
    target_duration,  \* run's target_duration (0: not drawn yet)
    examined,         \* indices of all_clips the loop at line 157 has visited
    unreadable,       \* those of them whose frame 0 could not be read
    final_clips,      \* run's final_clips, as indices of all_clips
    current_duration, \* run's current_duration
    valid_clips,      \* run's valid_clips
    revalidated,      \* how many final_clips the loop at line 178 has visited
    dropped,          \* positions of final_clips whose file could not be opened again
    open_handles,     \* decode resources opened and not closed
    output_path,      \* the file write_videofile completed ("" if none)
    error,            \* the exception run ended with ("" if none)
    progress_log,     \* values emitted on the progress signal, in order
    status_log,       \* the latest value emitted on the status signal
    finished_log      \* values emitted on the finished signal, in order

hostVars   == <<win_files, select_btn, process_btn, bar_visible, bar_value, delivered, handled>>
splitVars  == <<processed, split_points, all_clips>>
selectVars == <<target_duration, examined, unreadable, final_clips, current_duration>>
finalVars  == <<valid_clips, revalidated, dropped, output_path>>
signalVars == <<progress_log, status_log, finished_log>>
vars == <<entry, media, faults, hostVars, pc, video_files, splitVars, selectVars,
          finalVars, open_handles, error, signalVars>>

\* ------------------------------------------------------------ helpers
Range(s) == {s[i] : i \in 1..Len(s)}
Last(s) == s[Len(s)]
SetMin(S) == CHOOSE x \in S : \A y \in S : x <= y

RECURSIVE SortedSeq(_)
SortedSeq(S) == IF S = {} THEN <<>>
                ELSE LET m == SetMin(S) IN <<m>> \o SortedSeq(S \ {m})

RECURSIVE Flatten(_)
Flatten(ss) == IF ss = <<>> THEN <<>> ELSE Head(ss) \o Flatten(Tail(ss))

SeqsUpTo(S, n) == UNION {[1..k -> S] : k \in 0..n}

\* ------------------------------------------------------------ split_video
\* np.arange(0, duration, 3.0)
Arange(duration) == [k \in 1..((duration + Cadence - 1) \div Cadence) |-> (k - 1) * Cadence]

\* lines 50-69: the fixed cadence without an audio track, else the beat times
RawPoints(f) == IF ~f.audio THEN Arange(f.duration) ELSE f.beats

\* variant of WithFallback: the cadence only when there is no point at all
FallbackWhenEmpty(points, duration) ==
    IF Len(points) < 1 THEN Arange(duration) ELSE points
\* lines 72-75
WithFallback(points, duration) ==
    IF Len(points) < 2 THEN Arange(duration) ELSE points

\* variant of DropBeyond: the filter of line 78 left out
NoDrop(points, duration) == points
\* line 78
DropBeyond(points, duration) == SelectSeq(points, LAMBDA t : t < duration)

\* variant of WithEnd: the end of the file is not made a boundary
WithoutEnd(points, duration) == points
\* lines 81-82
WithEnd(points, duration) ==
    IF Len(points) = 0 \/ Last(points) < duration
    THEN Append(points, duration) ELSE points

\* lines 50-82
SplitPoints(f) ==
    WithEnd(DropBeyond(WithFallback(RawPoints(f), f.duration), f.duration), f.duration)

\* variant of InWindow: >= for > and no upper limit
AnyLength(start_time, end_time) == end_time - start_time >= MinClip
\* line 94
InWindow(start_time, end_time) ==
    end_time - start_time > MinClip /\ end_time - start_time < MaxClip

\* variant of ClipProgress: scaled to 100 instead of 30
FullScale(i, total_points) == (i * DoneProgress) \div total_points
\* line 103, i counted from 1
ClipProgress(i, total_points) == (i * SplitScale) \div total_points

\* variant of CutFrom: the first pair that fails ends the loop
RECURSIVE CutUntilFailure(_, _, _, _)
CutUntilFailure(path, points, ok, from) ==
    IF from >= Len(points) THEN <<>>
    ELSE IF InWindow(points[from], points[from + 1]) /\ ~ok[from] THEN <<>>
    ELSE (IF InWindow(points[from], points[from + 1])
          THEN <<[filename |-> path, start |-> points[from], end |-> points[from + 1]]>>
          ELSE <<>>)
         \o CutUntilFailure(path, points, ok, from + 1)
\* lines 89-107: the pairs (points[i], points[i+1]), i >= from; ok[i] tells
\* whether subclip and get_frame(0) succeed on pair i
RECURSIVE CutFrom(_, _, _, _)
CutFrom(path, points, ok, from) ==
    IF from >= Len(points) THEN <<>>
    ELSE (IF InWindow(points[from], points[from + 1]) /\ ok[from]
          THEN <<[filename |-> path, start |-> points[from], end |-> points[from + 1]]>>
          ELSE <<>>)
         \o CutFrom(path, points, ok, from + 1)

RECURSIVE EmitFrom(_, _, _)
EmitFrom(points, ok, from) ==
    IF from >= Len(points) THEN <<>>
    ELSE (IF InWindow(points[from], points[from + 1]) /\ ok[from]
          THEN <<ClipProgress(from, Len(points) - 1)>>
          ELSE <<>>)
         \o EmitFrom(points, ok, from + 1)

ClipDuration(clip) == clip.end - clip.start

RECURSIVE TotalDuration(_)
TotalDuration(clips) ==
    IF clips = <<>> THEN 0 ELSE ClipDuration(Head(clips)) + TotalDuration(Tail(clips))


\* ------------------------------------------------------------ initial states
WorkerInit ==
    /\ faults = 0
    /\ processed = <<>>
    /\ split_points = <<>>
    /\ all_clips = <<>>
    /\ target_duration = 0
    /\ examined = {}
    /\ unreadable = {}
    /\ final_clips = <<>>
    /\ current_duration = 0
    /\ valid_clips = <<>>
    /\ revalidated = 0
    /\ dropped = {}
    /\ open_handles = 0
    /\ output_path = ""
    /\ error = ""
    /\ progress_log = <<>>
    /\ status_log = ""
    /\ finished_log = <<>>

\* lines 229-261 (MainWindow.__init__); no VideoProcessor exists yet
Init ==
    /\ entry \in {"main", "direct"}
    /\ media = Library
    /\ win_files = <<>>
    /\ select_btn = TRUE
    /\ process_btn = FALSE
    /\ bar_visible = FALSE
    /\ bar_value = -1
    /\ delivered = 0
    /\ handled = 0
    /\ pc = "idle"
    /\ video_files = <<>>
    /\ WorkerInit

\* ------------------------------------------------------------ MainWindow
\* What the file dialog can return: a list of different files, or nothing.
DialogResults == {fs \in SeqsUpTo(Paths, MaxFiles) : \A i, j \in 1..Len(fs) : i # j => fs[i] # fs[j]}

\* lines 263-274
select_videos(files) ==
    /\ entry = "main"
    /\ select_btn
    /\ IF files # <<>>
       THEN /\ win_files' = files
            /\ process_btn' = TRUE
       ELSE UNCHANGED <<win_files, process_btn>>
    /\ UNCHANGED <<entry, media, faults, select_btn, bar_visible, bar_value, delivered, handled,
                   pc, video_files, splitVars, selectVars, finalVars, open_handles, error,
                   signalVars>>

\* line 277
NothingSelected(files) == files = <<>>

\* variant of DisableButtons: the buttons stay as they are
LeaveButtons == UNCHANGED <<select_btn, process_btn>>
\* lines 280-281
DisableButtons ==
    /\ select_btn' = FALSE
    /\ process_btn' = FALSE

\* lines 276-289, on a click of process_btn
process_videos ==
    /\ entry = "main"
    /\ process_btn
    /\ IF NothingSelected(win_files)
       THEN UNCHANGED <<select_btn, process_btn, bar_visible, bar_value, video_files, pc>>
       ELSE /\ DisableButtons
            /\ bar_visible' = TRUE
            /\ bar_value' = 0
            /\ video_files' = win_files
            /\ pc' = "start"
    /\ UNCHANGED <<entry, media, faults, win_files, delivered, handled, splitVars, selectVars,
                   finalVars, open_handles, error, signalVars>>

\* lines 291-292
update_progress(value) ==
    /\ bar_value' = value
    /\ UNCHANGED <<select_btn, process_btn, bar_visible>>

\* lines 297-300
processing_finished(path) ==
    /\ select_btn' = TRUE
    /\ process_btn' = TRUE
    /\ bar_visible' = FALSE
    /\ UNCHANGED bar_value

\* lines 286-288: the emissions of the worker thread are queued to the thread
\* of MainWindow, whose event loop calls the connected slot for each, in the
\* order of emission
event_loop ==
    /\ entry = "main"
    /\ \/ /\ delivered < Len(progress_log)
          /\ update_progress(progress_log[delivered + 1])
          /\ delivered' = delivered + 1
          /\ UNCHANGED handled
       \/ /\ delivered = Len(progress_log)
          /\ handled < Len(finished_log)
          /\ processing_finished(finished_log[handled + 1])
          /\ handled' = handled + 1
          /\ UNCHANGED delivered
    /\ UNCHANGED <<entry, media, faults, win_files, pc, video_files, splitVars, selectVars,
                   finalVars, open_handles, error, signalVars>>

\* lines 22-24 and QThread.start(), by a caller other than MainWindow
VideoProcessorInit(files) ==
    /\ entry = "direct"
    /\ pc = "idle"
    /\ video_files' = files
    /\ pc' = "start"
    /\ UNCHANGED <<entry, media, faults, hostVars, splitVars, selectVars, finalVars,
                   open_handles, error, signalVars>>

\* ------------------------------------------------------------ VideoProcessor.run
\* lines 222-226: the handler every exception of run ends in
Fail(kind) ==
    /\ pc' = "failed"
    /\ error' = kind
    /\ status_log' = "failed"
    /\ progress_log' = Append(progress_log, FailProgress)
    /\ UNCHANGED finished_log

\* variant of NoVideoFiles: the check of line 129 left out
NoGuard(files) == FALSE
\* line 129
NoVideoFiles(files) == files = <<>>

\* lines 128-133
run_begin ==
    /\ pc = "start"
    /\ IF NoVideoFiles(video_files)
       THEN Fail("NoInput")
       ELSE /\ pc' = "extract"
            /\ UNCHANGED <<error, signalVars>>
    /\ UNCHANGED <<entry, media, faults, hostVars, video_files, splitVars, selectVars,
                   finalVars, open_handles>>

\* variant of AfterFile: the loop ends one file early
AfterFileEarly(done) == IF done >= Len(video_files) - 1 THEN "extracted" ELSE "extract"
\* line 135: the loop goes on until every file has been visited
AfterFile(done) == IF done = Len(video_files) THEN "extracted" ELSE "extract"

\* variant of SkipFile: the exception leaves the loop and ends run
AbortBatch(path, outcome, status) ==
    /\ Fail(outcome)
    /\ faults' = faults + 1
    /\ UNCHANGED <<processed, split_points, all_clips>>
\* lines 140-142 (and 46-48): the file gives no clips, the loop goes on
SkipFile(path, outcome, status) ==
    /\ faults' = faults + 1
    /\ processed' = Append(processed, [path |-> path, outcome |-> outcome, failed |-> {}, clips |-> <<>>])
    /\ pc' = AfterFile(Len(processed) + 1)
    /\ status_log' = status
    /\ UNCHANGED <<split_points, all_clips, error, progress_log, finished_log>>

\* lines 135-142 with the call of split_video (lines 39-125) on the next file
split_video ==
    /\ pc = "extract"
    /\ Len(processed) < Len(video_files)
    /\ LET path == video_files[Len(processed) + 1]
           f == media[path]
           points == SplitPoints(f)
       IN \/ \* line 45 raises
             /\ faults < MaxFaults
             /\ SkipFile(path, "open_error", "processing")
          \/ \* lines 46-48: no reader
             /\ faults < MaxFaults
             /\ SkipFile(path, "no_reader", "processing")
          \/ \* lines 60-69 raise; lines 118-125 close the file and raise again
             /\ f.audio
             /\ faults < MaxFaults
             /\ SkipFile(path, "analysis_error", "analyzing")
          \/ \* lines 50-116
             \E ok \in [1..(Len(points) - 1) -> BOOLEAN] :
                LET failed == {i \in DOMAIN ok : ~ok[i]}
                    clips == CutFrom(path, points, ok, 1)
                IN /\ \A i \in failed : InWindow(points[i], points[i + 1])
                   /\ faults + Cardinality(failed) <= MaxFaults
                   /\ faults' = faults + Cardinality(failed)
                   /\ split_points' = points
                   /\ processed' = Append(processed,
                                      [path |-> path, outcome |-> "ok", failed |-> failed,
                                       clips |-> clips])
                   /\ all_clips' = all_clips \o clips
                   /\ progress_log' = progress_log \o EmitFrom(points, ok, 1)
                   /\ status_log' = "cutting"
                   /\ pc' = AfterFile(Len(processed) + 1)
                   /\ UNCHANGED <<error, finished_log>>
    /\ UNCHANGED <<entry, media, hostVars, video_files, selectVars, finalVars, open_handles>>

\* variant of PoolEmpty: the check of line 144 left out
NeverEmpty(clips) == FALSE
\* line 144
PoolEmpty(clips) == clips = <<>>

\* lines 144-154; the order random.shuffle gives is drawn clip by clip in select_clip
begin_selection ==
    /\ pc = "extracted"
    /\ IF PoolEmpty(all_clips)
       THEN /\ Fail("NoClips")
            /\ UNCHANGED target_duration
       ELSE /\ \E t \in Targets : target_duration' = t
            /\ pc' = "select"
            /\ status_log' = "combining"
            /\ UNCHANGED <<error, progress_log, finished_log>>
    /\ UNCHANGED <<entry, media, faults, hostVars, video_files, splitVars, examined,
                   unreadable, final_clips, current_duration, finalVars, open_handles>>


Clip(k) == all_clips[k]

\* variant of Fits: the comparison of line 164 left out
AlwaysFits(current, clip_duration, target) == TRUE
\* variant of Fits: the comparison of line 164 turned round
FitsReversed(current, clip_duration, target) == current + clip_duration >= target
\* line 164
Fits(current, clip_duration, target) == current + clip_duration <= target

\* variant of Reached: the loop ends with the first accepted clip
BreakAfterFirst(current, target) == current > 0
\* line 167
Reached(current, target) == current >= target

\* lines 157-171, one iteration: the next clip of the shuffled list is any clip
\* not visited yet; readable tells whether lines 159-162 find a frame
select_clip ==
    /\ pc = "select"
    /\ \E k \in (1..Len(all_clips)) \ examined, readable \in BOOLEAN :
          LET accept == readable /\ Fits(current_duration, ClipDuration(Clip(k)), target_duration)
              current == IF accept THEN current_duration + ClipDuration(Clip(k))
                         ELSE current_duration
              stop == (readable /\ Reached(current, target_duration))
                      \/ examined \cup {k} = 1..Len(all_clips)
          IN /\ readable \/ faults < MaxFaults
             /\ faults' = IF readable THEN faults ELSE faults + 1
             /\ examined' = examined \cup {k}
             /\ unreadable' = IF readable THEN unreadable ELSE unreadable \cup {k}
             /\ final_clips' = IF accept THEN Append(final_clips, k) ELSE final_clips
             /\ current_duration' = current
             /\ pc' = IF stop THEN "selected" ELSE "select"
    /\ UNCHANGED <<entry, media, hostVars, video_files, splitVars, target_duration,
                   finalVars, open_handles, error, signalVars>>

\* lines 173-177
check_selection ==
    /\ pc = "selected"
    /\ IF final_clips = <<>>
       THEN Fail("InsufficientClips")
       ELSE /\ pc' = "revalidate"
            /\ UNCHANGED <<error, signalVars>>
    /\ UNCHANGED <<entry, media, faults, hostVars, video_files, splitVars, selectVars,
                   finalVars, open_handles>>

\* line 181: VideoFileClip(clip.filename) is the file of the clip, from its
\* first to its last frame
Reopened(clip) == [filename |-> clip.filename, start |-> 0, end |-> media[clip.filename].duration]

\* lines 178-186, one iteration
reopen_clip ==
    /\ pc = "revalidate"
    /\ revalidated < Len(final_clips)
    /\ \E opened \in BOOLEAN :
          /\ opened \/ faults < MaxFaults
          /\ faults' = IF opened THEN faults ELSE faults + 1
          /\ valid_clips' = IF opened
                            THEN Append(valid_clips, Reopened(Clip(final_clips[revalidated + 1])))
                            ELSE valid_clips
          /\ dropped' = IF opened THEN dropped ELSE dropped \cup {revalidated + 1}
          /\ open_handles' = IF opened THEN open_handles + 1 ELSE open_handles
    /\ revalidated' = revalidated + 1
    /\ pc' = IF revalidated + 1 = Len(final_clips) THEN "revalidated" ELSE "revalidate"
    /\ UNCHANGED <<entry, media, hostVars, video_files, splitVars, selectVars, output_path,
                   error, signalVars>>

\* variant of NoValid: the check of line 188 left out
AlwaysValid(clips) == FALSE
\* line 188
NoValid(clips) == clips = <<>>

\* lines 188-189
check_valid ==
    /\ pc = "revalidated"
    /\ IF NoValid(valid_clips)
       THEN Fail("NoValidClips")
       ELSE /\ pc' = "concatenate"
            /\ UNCHANGED <<error, signalVars>>
    /\ UNCHANGED <<entry, media, faults, hostVars, video_files, splitVars, selectVars,
                   finalVars, open_handles>>

\* lines 192-193
concatenate_videoclips ==
    /\ pc = "concatenate"
    /\ \/ /\ pc' = "write"
          /\ status_log' = "generating"
          /\ open_handles' = open_handles + 1
          /\ UNCHANGED <<faults, error, progress_log, finished_log>>
       \/ /\ faults < MaxFaults
          /\ faults' = faults + 1
          /\ Fail("ConcatError")
          /\ UNCHANGED open_handles
    /\ UNCHANGED <<entry, media, hostVars, video_files, splitVars, selectVars, finalVars>>

\* lines 196-220
write_videofile ==
    /\ pc = "write"
    /\ \/ /\ output_path' = "mixed_video.mp4"
          /\ open_handles' = open_handles - 1 - Len(valid_clips)
          /\ status_log' = "done"
          /\ progress_log' = Append(progress_log, DoneProgress)
          /\ pc' = "done"
          /\ UNCHANGED <<faults, error, finished_log>>
       \/ /\ faults < MaxFaults
          /\ faults' = faults + 1
          /\ Fail("WriteError")
          /\ UNCHANGED <<output_path, open_handles>>
    /\ UNCHANGED <<entry, media, hostVars, video_files, splitVars, selectVars, valid_clips,
                   revalidated, dropped>>

\* ------------------------------------------------------------ specifications
\* A caller other than MainWindow can pass what the dialog never returns, the
\* empty list; the lists the dialog returns reach run through process_videos.
DirectLists == {<<>>}

Next ==
    \/ \E files \in DialogResults : select_videos(files)
    \/ process_videos
    \/ \E files \in DirectLists : VideoProcessorInit(files)
    \/ run_begin
    \/ split_video
    \/ begin_selection
    \/ select_clip
    \/ check_selection
    \/ reopen_clip
    \/ check_valid
    \/ concatenate_videoclips
    \/ write_videofile

Spec == Init /\ [][Next]_vars

\* MainWindow with its event loop: the steps of the worker thread and the
\* delivery of what it emitted both go on as long as they can
run_step ==
    \/ run_begin
    \/ split_video
    \/ begin_selection
    \/ select_clip
    \/ check_selection
    \/ reopen_clip
    \/ check_valid
    \/ concatenate_videoclips
    \/ write_videofile

HostNext == Next \/ event_loop

HostSpec == Init /\ [][HostNext]_vars /\ WF_vars(run_step) /\ WF_vars(event_loop)

\* split_video by itself: one file of any duration up to MaxDuration, with or
\* without an audio track, and any increasing beat times of BeatGrid
AnyFile ==
    {[duration |-> d, audio |-> a, beats |-> SortedSeq(B)] :
        d \in 0..MaxDuration, a \in BOOLEAN, B \in SUBSET BeatGrid}

InitSplit ==
    /\ entry = "direct"
    /\ media \in [{"a.mp4"} -> {f \in AnyFile : f.audio \/ f.beats = <<>>}]
    /\ win_files = <<>>
    /\ select_btn = TRUE
    /\ process_btn = FALSE
    /\ bar_visible = FALSE
    /\ bar_value = -1
    /\ delivered = 0
    /\ handled = 0
    /\ pc = "start"
    /\ video_files = <<"a.mp4">>
    /\ WorkerInit

NextSplit == run_begin \/ split_video

SplitSpec == InitSplit /\ [][NextSplit]_vars

\* split_video on a file that takes the fixed cadence (no audio track, or fewer
\* than two beat times), by itself or after a file of the Library
CadenceFiles == {f \in AnyFile : (f.audio \/ f.beats = <<>>) /\ (~f.audio \/ Len(f.beats) < 2)}
CadenceLists == {<<"x.mp4">>} \cup {<<p, "x.mp4">> : p \in Paths}

InitCadence ==
    /\ entry = "direct"
    /\ \E f \in CadenceFiles :
          media = [p \in Paths \cup {"x.mp4"} |-> IF p = "x.mp4" THEN f ELSE Library[p]]
    /\ win_files = <<>>
    /\ select_btn = TRUE
    /\ process_btn = FALSE
    /\ bar_visible = FALSE
    /\ bar_value = -1
    /\ delivered = 0
    /\ handled = 0
    /\ pc = "start"
    /\ video_files \in CadenceLists
    /\ WorkerInit

CadenceSpec == InitCadence /\ [][NextSplit]_vars

\* the extraction of three files without an audio track, each of about 20 s
ScenarioPaths == <<"s1.mp4", "s2.mp4", "s3.mp4">>
ScenarioDurations == {39, 40, 41}

InitScenario ==
    /\ entry = "direct"
    /\ media \in [Range(ScenarioPaths) ->
                    {[duration |-> d, audio |-> FALSE, beats |-> <<>>] : d \in ScenarioDurations}]
    /\ win_files = <<>>
    /\ select_btn = TRUE
    /\ process_btn = FALSE
    /\ bar_visible = FALSE
    /\ bar_value = -1
    /\ delivered = 0
    /\ handled = 0
    /\ pc = "start"
    /\ video_files = ScenarioPaths
    /\ WorkerInit

ScenarioSpec == InitScenario /\ [][NextSplit]_vars


\* ------------------------------------------------------------ properties
Terminal == pc \in {"done", "failed"}
ExtractionEnded == video_files # <<>> /\ pc \notin {"idle", "start", "extract"}
Increasing(points) == \A i \in 1..(Len(points) - 1) : points[i] < points[i + 1]
FinalClipRecords == [i \in 1..Len(final_clips) |-> Clip(final_clips[i])]

\* C1: when run has ended, by success or by failure, exactly one value was
\* emitted on the finished signal: the output path on success, the empty
\* string on failure.
C1_ExactlyOneFinished ==
    Terminal => /\ Len(finished_log) = 1
                /\ finished_log[1] = output_path
                /\ (pc = "done") = (output_path # "")

\* C2: the values emitted on the progress signal within a run never decrease
\* and each lies in 0..100.
C2_ProgressMonotone ==
    /\ \A i \in 1..Len(progress_log) : progress_log[i] \in 0..100
    /\ \A i \in 1..(Len(progress_log) - 1) : progress_log[i] <= progress_log[i + 1]

C4_BoundariesWellFormed ==
    (processed # <<>> /\ Last(processed).outcome = "ok") =>
        LET duration == media[Last(processed).path].duration
        IN /\ split_points # <<>>
           /\ Increasing(split_points)
           /\ \A i \in 1..Len(split_points) : split_points[i] <= duration
           /\ Last(split_points) = duration

C4_Witness ==
    /\ processed # <<>> /\ Last(processed).outcome = "ok"
    /\ LET f == media[Last(processed).path]
       IN /\ f.audio
          /\ Len(f.beats) >= 3
          /\ \E i \in 1..Len(f.beats) : f.beats[i] = f.duration
          /\ \E i \in 1..Len(f.beats) : f.beats[i] > f.duration
          /\ Len(split_points) >= 2

\* C5: every clip of all_clips is longer than 0.5 s and shorter than 10.0 s
\* and is an adjacent pair of the boundaries; a pair of 0.5 s or less, or of
\* 10.0 s or more, is skipped (the file still counts as processed) and is not
\* in all_clips.
C5_PoolClipsInWindow ==
    /\ \A i \in 1..Len(all_clips) :
          /\ all_clips[i].end - all_clips[i].start > MinClip
          /\ all_clips[i].end - all_clips[i].start < MaxClip
    /\ (Len(processed) = 1 /\ processed[1].outcome = "ok") =>
          \A i \in 1..Len(all_clips) :
             \E j \in 1..(Len(split_points) - 1) :
                /\ all_clips[i].start = split_points[j]
                /\ all_clips[i].end = split_points[j + 1]

C5_Witness ==
    /\ Len(processed) = 1 /\ processed[1].outcome = "ok"
    /\ all_clips # <<>>
    /\ \E j \in 1..(Len(split_points) - 1) : split_points[j + 1] - split_points[j] = MinClip
    /\ \E j \in 1..(Len(split_points) - 1) : split_points[j + 1] - split_points[j] = MaxClip
    /\ \E i \in 1..Len(all_clips) : all_clips[i].end - all_clips[i].start = MinClip + 1

\* C6: the clips handed to concatenate_videoclips are the accepted clips, with
\* their start and end, so their total duration is at most target_duration,
\* which lies in 30..60 s.
C6_AssembledWithinTarget ==
    (pc \in {"concatenate", "write", "done"}) =>
        /\ target_duration \in TargetMin..TargetMax
        /\ \A i \in 1..Len(valid_clips) :
              \E j \in 1..Len(final_clips) :
                 /\ valid_clips[i].start = Clip(final_clips[j]).start
                 /\ valid_clips[i].end = Clip(final_clips[j]).end
        /\ TotalDuration(valid_clips) <= target_duration


\* C7, the state part: once drawn, target_duration lies in 30..60 s, and
\* current_duration is the total of the accepted clips and never above it.
C7_RunningTotal ==
    (target_duration # 0) =>
        /\ target_duration \in TargetMin..TargetMax
        /\ current_duration = TotalDuration(FinalClipRecords)
        /\ current_duration <= target_duration

\* C7, the step part: a visited clip is accepted exactly when its frame was
\* readable and current_duration plus its duration is at most
\* target_duration; no clip is visited once current_duration has reached
\* target_duration; target_duration never changes once drawn.
C7_Step ==
    /\ (examined' # examined) =>
          LET k == CHOOSE k \in examined' \ examined : TRUE
              d == Clip(k).end - Clip(k).start
              accepted == k \notin unreadable' /\ current_duration + d <= target_duration
          IN /\ examined' = examined \cup {k}
             /\ final_clips' = IF accepted THEN Append(final_clips, k) ELSE final_clips
             /\ current_duration' = IF accepted THEN current_duration + d ELSE current_duration
    /\ (target_duration # 0 /\ current_duration >= target_duration) => examined' = examined
    /\ (target_duration # 0) => target_duration' = target_duration

\* C7: during the selection loop current_duration stays at or below
\* target_duration, a clip is accepted exactly when it is readable and fits,
\* the loop visits nothing after the target is reached, and the target is
\* drawn once.
C7_GreedySelection == [](C7_RunningTotal) /\ [][C7_Step]_vars

C7_Witness ==
    /\ pc = "selected"
    /\ current_duration = target_duration
    /\ Len(final_clips) >= 4
    /\ \E k \in examined : k \notin unreadable /\ k \notin Range(final_clips)

\* C8: a file that fails (it does not open, its analysis raises) does not end
\* the loop over the files: when the run is past extraction every file of
\* video_files was processed, in the order of the list, and all_clips holds
\* the clips split_video returned for each, in that order.
C8_BatchSurvivesFileFailure ==
    /\ (pc = "extract") => Len(processed) < Len(video_files)
    /\ \A i \in 1..Len(processed) : processed[i].path = video_files[i]
    /\ all_clips = Flatten([i \in 1..Len(processed) |-> processed[i].clips])
    /\ ExtractionEnded => Len(processed) = Len(video_files)
    /\ (pc = "failed") => error \notin {"open_error", "no_reader", "analysis_error"}

C8_Witness ==
    /\ pc = "select"
    /\ Len(processed) = 2
    /\ processed[1].outcome # "ok"
    /\ processed[2].outcome = "ok"
    /\ all_clips = processed[2].clips
    /\ all_clips # <<>>

\* C9: a run whose pool is empty after the last file ends with the NoClips
\* failure and has neither drawn a target, nor selected, re-opened or written
\* anything.
C9_EmptyPoolFails ==
    (ExtractionEnded /\ all_clips = <<>> /\ pc # "extracted") =>
        /\ pc = "failed"
        /\ error = "NoClips"
        /\ target_duration = 0
        /\ examined = {}
        /\ final_clips = <<>>
        /\ valid_clips = <<>>
        /\ revalidated = 0
        /\ output_path = ""

C9_Witness ==
    /\ pc = "failed"
    /\ error = "NoClips"
    /\ Len(processed) = 2
    /\ \E i \in 1..2 : processed[i].outcome = "ok" /\ Len(split_points) >= 2
    /\ \E i \in 1..2 : processed[i].outcome = "open_error"

\* C10: a run with an empty video_files ends with the NoInput failure before
\* any file is opened, any clip cut or anything written; and a worker that
\* MainWindow started has a non-empty video_files.
C10_EmptyInputRejected ==
    /\ (video_files = <<>> /\ pc \notin {"idle", "start"}) =>
          /\ pc = "failed"
          /\ error = "NoInput"
          /\ processed = <<>>
          /\ all_clips = <<>>
          /\ target_duration = 0
          /\ open_handles = 0
          /\ output_path = ""
    /\ (entry = "main" /\ pc # "idle") => video_files # <<>> /\ video_files = win_files
    /\ (entry = "main" /\ pc = "idle") => select_btn /\ (process_btn = (win_files # <<>>))

C10_Witness ==
    /\ entry = "direct"
    /\ video_files = <<>>
    /\ pc = "failed"
    /\ error = "NoInput"


\* C11: for a file without an audio track, or with fewer than two beat
\* times, the boundaries are 0, 3, 6, ... (every multiple of 3.0 s strictly
\* below the duration) followed by the duration, whatever file was processed
\* before it.
C11_FixedCadence ==
    (processed # <<>> /\ Last(processed).outcome = "ok" /\ Last(processed).path = "x.mp4") =>
        LET duration == media["x.mp4"].duration
            n == Len(split_points)
        IN /\ n >= 1
           /\ split_points[n] = duration
           /\ \A i \in 1..(n - 1) : split_points[i] = 3 * 2 * (i - 1) /\ split_points[i] < duration
           /\ 3 * 2 * (n - 1) >= duration

C11_Witness ==
    /\ Len(processed) = 2
    /\ processed[1].outcome = "ok" /\ processed[1].clips # <<>>
    /\ processed[2].outcome = "ok"
    /\ media["x.mp4"].audio
    /\ Len(media["x.mp4"].beats) = 1
    /\ media["x.mp4"].beats[1] > 0
    /\ Len(split_points) >= 4


\* C12: in the re-validation the accepted clips whose file cannot be opened
\* again are dropped and the others are kept in the order of acceptance; when
\* none is kept the run ends with NoValidClips and no output file.
C12_DropUnopenable ==
    LET Kept(i) == i \notin dropped
        kept == SelectSeq([i \in 1..revalidated |-> i], Kept)
    IN /\ dropped \subseteq 1..revalidated
       /\ revalidated <= Len(final_clips)
       /\ Len(valid_clips) = Len(kept)
       /\ \A j \in 1..Len(kept) :
             valid_clips[j].filename = Clip(final_clips[kept[j]]).filename
       /\ (final_clips # <<>> /\ dropped = 1..Len(final_clips) /\ pc # "revalidated") =>
             (pc = "failed" /\ error = "NoValidClips" /\ output_path = "")

C12_Witness ==
    /\ pc = "concatenate"
    /\ Len(final_clips) >= 3
    /\ dropped = {2}
    /\ Clip(final_clips[1]).filename # Clip(final_clips[3]).filename
    /\ Len(valid_clips) = Len(final_clips) - 1


\* C13: when run has ended, with the output written or with a failure at any
\* stage, every decode resource opened during the run has been closed.
C13_AllClosed == Terminal => open_handles = 0


\* C14: MainWindow runs one worker at a time: while a run it started has not
\* both ended and had its completion handled, the buttons are disabled, a
\* worker is started only when none was started before or after the completion
\* of the previous one was handled, and nothing the previous worker emitted is
\* still undelivered when the next one starts.
RunHandled ==
    /\ Terminal
    /\ handled > 0
    /\ handled = Len(finished_log)
    /\ delivered = Len(progress_log)

C14_Locked ==
    (entry = "main" /\ pc # "idle" /\ ~RunHandled) => (~select_btn /\ ~process_btn)

C14_StartStep ==
    (entry = "main" /\ pc' = "start") => (pc = "idle" \/ RunHandled)

C14_RunsSerialized == [](C14_Locked) /\ [][C14_StartStep]_vars

C14_Witness ==
    /\ entry = "main"
    /\ pc = "select"
    /\ Len(video_files) = 2
    /\ delivered < Len(progress_log)
    /\ ~process_btn
    /\ win_files # <<>>

\* C19: after MainWindow has started a run, the completion of the run is
\* eventually handled and both buttons are enabled again.
C19_ButtonsEnabledAgain ==
    (entry = "main" /\ pc = "start") ~> (handled > 0 /\ select_btn /\ process_btn)


\* C15: run goes through its stages in the order Idle, Extracting, Selecting,
\* Assembling and then Done, or Failed from any of them; the selection starts
\* only when every input file has been processed, the writing only when the
\* re-validated selection is not empty, and a run that is Done or Failed takes
\* no further step.
Stage(p) ==
    CASE p \in {"idle", "start"} -> "Idle"
      [] p \in {"extract", "extracted"} -> "Extracting"
      [] p \in {"select", "selected", "revalidate", "revalidated"} -> "Selecting"
      [] p \in {"concatenate", "write"} -> "Assembling"
      [] p = "done" -> "Done"
      [] p = "failed" -> "Failed"

StageOrder ==
    {<<"Idle", "Extracting">>, <<"Extracting", "Selecting">>, <<"Selecting", "Assembling">>,
     <<"Assembling", "Done">>, <<"Idle", "Failed">>, <<"Extracting", "Failed">>,
     <<"Selecting", "Failed">>, <<"Assembling", "Failed">>}

C15_StageStep ==
    /\ Stage(pc') # Stage(pc) => <<Stage(pc), Stage(pc')>> \in StageOrder
    /\ Terminal => UNCHANGED <<pc, video_files, splitVars, selectVars, finalVars, open_handles,
                               error, signalVars>>

C15_StageState ==
    /\ Stage(pc) \in {"Selecting", "Assembling", "Done"} =>
          (video_files # <<>> /\ Len(processed) = Len(video_files))
    /\ Stage(pc) \in {"Assembling", "Done"} =>
          (valid_clips # <<>> /\ revalidated = Len(final_clips))
    /\ output_path # "" => pc = "done"

C15_StagesInOrder == [](C15_StageState) /\ [][C15_StageStep]_vars

C15_Witness ==
    /\ pc = "done"
    /\ Len(video_files) = 2
    /\ Len(processed) = 2
    /\ dropped # {}
    /\ output_path # ""


\* C16: within one file a boundary pair whose subclip or frame 0 fails does
\* not end the cutting: the clips of the file are, in boundary order, exactly
\* the pairs that are longer than 0.5 s, shorter than 10.0 s and did not fail,
\* those after a failed pair included.
C16_CuttingGoesOn ==
    (processed # <<>> /\ Last(processed).outcome = "ok") =>
        LET r == Last(processed)
            good == {i \in 1..(Len(split_points) - 1) :
                        /\ split_points[i + 1] - split_points[i] > MinClip
                        /\ split_points[i + 1] - split_points[i] < MaxClip
                        /\ i \notin r.failed}
        IN /\ Len(r.clips) = Cardinality(good)
           /\ \A i \in good : \E j \in 1..Len(r.clips) :
                 r.clips[j].start = split_points[i] /\ r.clips[j].end = split_points[i + 1]
           /\ \A j, k \in 1..Len(r.clips) : j < k => r.clips[j].end <= r.clips[k].start

C16_Witness ==
    /\ processed # <<>>
    /\ Last(processed).outcome = "ok"
    /\ \E i \in Last(processed).failed :
          /\ \E j \in 1..Len(Last(processed).clips) : Last(processed).clips[j].end <= split_points[i]
          /\ \E j \in 1..Len(Last(processed).clips) : Last(processed).clips[j].start >= split_points[i + 1]


\* C17: three files of 20 s without an audio track, every subclip readable:
\* each file gives seven clips, six of 3 s and then one of 2 s, and the pool
\* holds 21 clips when the extraction ends.
C17_ScenarioA ==
    (/\ pc = "extracted"
     /\ faults = 0
     /\ video_files = ScenarioPaths
     /\ \A p \in Range(ScenarioPaths) : media[p].duration = 20 * 2 /\ ~media[p].audio) =>
        /\ Len(processed) = 3
        /\ \A i \in 1..3 :
              /\ processed[i].path = ScenarioPaths[i]
              /\ Len(processed[i].clips) = 7
              /\ \A j \in 1..6 : processed[i].clips[j].end - processed[i].clips[j].start = 3 * 2
              /\ processed[i].clips[7].end - processed[i].clips[7].start = 2 * 2
        /\ Len(all_clips) = 21

C17_Witness ==
    /\ pc = "extracted"
    /\ faults = 0
    /\ video_files = ScenarioPaths
    /\ \A p \in Range(ScenarioPaths) : media[p].duration = 20 * 2 /\ ~media[p].audio
    /\ Len(all_clips) = 21


\* C18: when the pool is not empty and no clip failed the frame check of the
\* selection, the selection is not empty; a run ends with InsufficientClips
\* only after every clip of the pool was examined and failed that check.
SelectionEnded ==
    \/ pc \in {"selected", "revalidate", "revalidated", "concatenate", "write", "done"}
    \/ pc = "failed" /\ error \in {"InsufficientClips", "NoValidClips", "ConcatError", "WriteError"}

C18_SelectionNotEmpty ==
    /\ (SelectionEnded /\ all_clips # <<>> /\ unreadable = {}) => final_clips # <<>>
    /\ error = "InsufficientClips" =>
          (all_clips # <<>> /\ examined = 1..Len(all_clips) /\ unreadable = examined)

C18_Witness ==
    /\ pc = "failed"
    /\ error = "InsufficientClips"
    /\ all_clips # <<>>
    /\ unreadable = examined

\* C20: when the selection loop has ended and no clip failed the frame check,
\* either every clip of the pool was accepted or the accepted total is above
\* the target less 10 s; no clip of the pool is accepted twice.
C20_SelectionMaximal ==
    /\ \A i, j \in 1..Len(final_clips) : i # j => final_clips[i] # final_clips[j]
    /\ (pc = "selected" /\ unreadable = {}) =>
          \/ Len(final_clips) = Len(all_clips)
          \/ current_duration > target_duration - 10 * 2

C20_Witness ==
    /\ pc = "selected"
    /\ unreadable = {}
    /\ examined = 1..Len(all_clips)
    /\ Len(final_clips) < Len(all_clips)
    /\ current_duration < target_duration

====
